---- MODULE Spec2Model ----
(***************************************************************************)
(* A model of the NWPS hydrograph viewer's transformation core             *)
(* (src/logic.py), of the viewer's per-session cache                       *)
(* (src/hydro_viewer.py) and of the concurrent ensemble fetch (src/api.py).*)
(*                                                                         *)
(* Numbers.  The code computes in float64.  The model computes in exact    *)
(* rationals <<n, d>> (d > 0, lowest terms); NaN, pandas' "no value", is   *)
(* <<0, 0>>.  Stage is counted in half feet (stage 2 is 1.0 ft), flow in   *)
(* cfs, time in whole hours.                                               *)
(***************************************************************************)
EXTENDS Integers, Sequences, FiniteSets, TLC

VARIABLES
  rating,         \* the rating table a function is called with
  series,         \* the Series an interpolator is called with
  raw_data,       \* the provider payload given to the normalizer
  column_map,     \* its field map
  ensemble_df,    \* the ensemble table given to the band and risk engines
  args,           \* the other arguments of the call made
  call,           \* the function called, "none" before the call
  ret,            \* what it returned or raised
  session_state,  \* the viewer's st.session_state
  api_cache,      \* the st.cache_data stores of api.py
  provider,       \* what the upstream services hold now
  used,           \* the tables the last run of the viewer rendered
  fetch           \* the locals of a running fetch_hefs_timeseries

inputs == <<rating, series, raw_data, column_map, ensemble_df>>

viewer == <<session_state, api_cache, provider, used>>

vars == <<inputs, args, call, ret, viewer, fetch>>

(***************************************************************************)
(* Bounds of the model.                                                    *)
(***************************************************************************)
MaxCurve == 3
MaxSeries == 2
MaxRecords == 2
MaxMembers == 3
MaxVersion == 2
MaxHeaders == 3

(***************************************************************************)
(* float64 arithmetic, exact.                                              *)
(***************************************************************************)
NaN == <<0, 0>>

IsNaN(a) == a[2] = 0

Abs(n) == IF n < 0 THEN -n ELSE n

RECURSIVE GCD(_, _)
GCD(a, b) == IF b = 0 THEN a ELSE GCD(b, a % b)

Norm(n, d) ==
  IF d = 0 THEN NaN
  ELSE LET g == GCD(Abs(n), Abs(d))
           s == IF d < 0 THEN -1 ELSE 1
       IN  <<(s * n) \div g, (s * d) \div g>>

Rat(n) == <<n, 1>>

RAdd(a, b) == IF IsNaN(a) \/ IsNaN(b) THEN NaN
              ELSE Norm(a[1] * b[2] + b[1] * a[2], a[2] * b[2])

RSub(a, b) == IF IsNaN(a) \/ IsNaN(b) THEN NaN
              ELSE Norm(a[1] * b[2] - b[1] * a[2], a[2] * b[2])

RMul(a, b) == IF IsNaN(a) \/ IsNaN(b) THEN NaN
              ELSE Norm(a[1] * b[1], a[2] * b[2])

RDiv(a, b) == IF IsNaN(a) \/ IsNaN(b) THEN NaN
              ELSE Norm(a[1] * b[2], a[2] * b[1])

\* Comparisons with NaN are false, as in IEEE 754.
RLt(a, b) == ~IsNaN(a) /\ ~IsNaN(b) /\ a[1] * b[2] < b[1] * a[2]

RLe(a, b) == ~IsNaN(a) /\ ~IsNaN(b) /\ a[1] * b[2] <= b[1] * a[2]

(***************************************************************************)
(* numpy.interp(x, xp, fp), as logic.py calls it: left = fp[0],            *)
(* right = fp[-1], xp used in the order given (numpy does not sort or      *)
(* check it).  For tables of up to four breakpoints numpy finds the        *)
(* segment by a linear scan from the left; the model's curves stay within  *)
(* that size.  Indices below are numpy's 0-based j.                        *)
(***************************************************************************)
RECURSIVE LinScan(_, _, _)
LinScan(key, arr, i) ==
  IF i < Len(arr) /\ RLe(arr[i + 1], key) THEN LinScan(key, arr, i + 1)
  ELSE i - 1

SearchSegment(key, arr) ==
  IF RLt(arr[Len(arr)], key) THEN Len(arr)
  ELSE IF RLt(key, arr[1]) THEN -1
  ELSE LinScan(key, arr, 1)

InterpBadSide(x, xp, fp) ==
  IF IsNaN(x) THEN x
  ELSE LET j == SearchSegment(x, xp) IN
    IF j = -1 THEN fp[Len(fp)]
    ELSE IF j >= Len(xp) - 1 THEN fp[1]
    ELSE IF xp[j + 1] = x THEN fp[j + 1]
    ELSE RAdd(RMul(RDiv(RSub(fp[j + 2], fp[j + 1]), RSub(xp[j + 2], xp[j + 1])),
                   RSub(x, xp[j + 1])), fp[j + 1])

InterpOne(x, xp, fp) ==
  IF IsNaN(x) THEN x
  ELSE IF Len(xp) = 1 THEN fp[1]
  ELSE LET j == SearchSegment(x, xp) IN
    IF j = -1 THEN fp[1]
    ELSE IF j >= Len(xp) - 1 THEN fp[Len(fp)]
    ELSE IF xp[j + 1] = x THEN fp[j + 1]
    ELSE RAdd(RMul(RDiv(RSub(fp[j + 2], fp[j + 1]), RSub(xp[j + 2], xp[j + 1])),
                   RSub(x, xp[j + 1])), fp[j + 1])

NpInterp(x, xp, fp) == [i \in 1..Len(x) |-> InterpOne(x[i], xp, fp)]

(***************************************************************************)
(* pandas values.  A Series is [index, values]; a rating table is          *)
(* [hasCols, rows]: hasCols is FALSE for pd.DataFrame() and for the {}     *)
(* that to_dict("list") makes of it (what load_data returns for an         *)
(* incomplete curve), and rows is the sequence of [stage, flow] records    *)
(* in the order the provider gave them.  A call returns [raised, ...]:     *)
(* raised names the exception that left the function, "" for none.         *)
(***************************************************************************)
Returned(v) == [raised |-> "", value |-> v]

Raised(e) == [raised |-> e, value |-> <<>>]

MkSeries(idx, vals) == [index |-> idx, values |-> vals]

AllNaN(s) == MkSeries(s.index, [i \in 1..Len(s.values) |-> NaN])

Column(rows, name) == [i \in 1..Len(rows) |-> Rat(rows[i][name])]

DfEmpty(rating_df) == rating_df.rows = <<>>

\* rating_df.sort_values(key): ascending; the model's curves hold no two
\* equal keys, so the order of ties does not arise.
RECURSIVE InsertSorted(_, _, _)
InsertSorted(r, sorted, key) ==
  IF sorted = <<>> THEN <<r>>
  ELSE IF r[key] < Head(sorted)[key] THEN <<r>> \o sorted
  ELSE <<Head(sorted)>> \o InsertSorted(r, Tail(sorted), key)

RECURSIVE SortValues(_, _)
SortValues(rows, key) ==
  IF rows = <<>> THEN <<>>
  ELSE InsertSorted(rows[Len(rows)], SortValues(SubSeq(rows, 1, Len(rows) - 1), key), key)

(***************************************************************************)
(* A DataFrame is [columns, index, rows]: the column names in order, the   *)
(* row labels in order, and per row a function from column name to cell.   *)
(* A missing numeric cell is NaN.  pd.DataFrame() has no columns and no    *)
(* rows.                                                                   *)
(***************************************************************************)
EmptyDataFrame == [columns |-> <<>>, index |-> <<>>, rows |-> <<>>]

\* DataFrame.empty: some axis has length 0
IsEmpty(df) == df.columns = <<>> \/ df.index = <<>>

HasColumn(df, c) == \E i \in 1..Len(df.columns) : df.columns[i] = c

\* df[c]
GetColumn(df, c) == MkSeries(df.index, [i \in 1..Len(df.rows) |-> df.rows[i][c]])

\* df[c] = s, for a Series s under df's own index: an existing column is
\* overwritten in place, a new one is appended
SetColumn(df, c, s) ==
  [columns |-> IF HasColumn(df, c) THEN df.columns ELSE Append(df.columns, c),
   index   |-> df.index,
   rows    |-> [i \in 1..Len(df.rows) |->
                  [k \in DOMAIN df.rows[i] \cup {c} |->
                     IF k = c THEN s.values[i] ELSE df.rows[i][k]]]]

(***************************************************************************)
(* logic.py: interpolate_stage_cached, interpolate_flow                    *)
(***************************************************************************)
interpolate_stage_cached(flow, rating_df_dict) ==
  \* line 79 sorts by "flow" before line 81 tests for emptiness: a table
  \* without columns raises KeyError there
  IF ~rating_df_dict.hasCols THEN Raised("KeyError")
  ELSE LET rows == SortValues(rating_df_dict.rows, "flow") IN
    IF rows = <<>> THEN Returned(AllNaN(flow))
    ELSE Returned(MkSeries(flow.index,
           NpInterp(flow.values, Column(rows, "flow"), Column(rows, "stage"))))

interpolate_flow(stage, rating_df) ==
  IF DfEmpty(rating_df) THEN Returned(AllNaN(stage))
  ELSE Returned(MkSeries(stage.index,
         NpInterp(stage.values, Column(rating_df.rows, "stage"),
                  Column(rating_df.rows, "flow"))))

(***************************************************************************)
(* logic.py: parse_timeseries.  A payload is [kind, items]: kind "list"    *)
(* with the records in items (each a function from field name to value),   *)
(* "dict" for a mapping (its keys in items) and "none" for None.  Times    *)
(* are strings                                                             *)
(* until pd.to_datetime turns them into hours (NaT if it cannot).          *)
(***************************************************************************)
InvalidTime == "0001-01-01T00:00:00Z"

NaT == -1

NullTime == "nan"

to_datetime_next_slot(str) ==
  CASE str = "2025-01-01T06:00:00Z" -> 12
    [] OTHER -> NaT

to_datetime(str) ==
  CASE str = "2025-01-01T06:00:00Z" -> 6
    [] str = "2025-01-01T12:00:00Z" -> 12
    [] OTHER -> NaT

\* The order in which a provider writes the fields of its records.
FieldOrder == <<"validTime", "primary", "secondary", "flow", "value",
                "stage_ft", "flow_kcfs", "flow_cfs">>

\* pd.DataFrame(data): one column per key that occurs, a missing cell is null
FrameOf(items) ==
  LET keys == UNION {DOMAIN items[i] : i \in 1..Len(items)}
      cols == SelectSeq(FieldOrder, LAMBDA f : f \in keys)
  IN  [columns |-> cols,
       index   |-> [i \in 1..Len(items) |-> i - 1],
       rows    |-> [i \in 1..Len(items) |->
                      [k \in keys |->
                         IF k \in DOMAIN items[i] THEN items[i][k]
                         ELSE IF k = "validTime" THEN NullTime ELSE NaN]]]

Renamed(c, cmap) == IF c \in DOMAIN cmap THEN cmap[c] ELSE c

\* df.rename(columns=cmap); the payloads of the model never map two fields
\* to one name
RenameColumns(df, cmap) ==
  [columns |-> [i \in 1..Len(df.columns) |-> Renamed(df.columns[i], cmap)],
   index   |-> df.index,
   rows    |-> [i \in 1..Len(df.rows) |->
                  [k \in {Renamed(c, cmap) : c \in DOMAIN df.rows[i]} |->
                     LET c == CHOOSE c \in DOMAIN df.rows[i] : Renamed(c, cmap) = k
                     IN  df.rows[i][c]]]]

IsNullCell(v) == IsNaN(v)

\* .replace(-999, pd.NA).dropna(how="any") decides per cell
IsDroppedCell(v) == v = Rat(-999) \/ IsNaN(v)

CleanRowsKeepNaT(df) ==
  LET kept    == SelectSeq(df.rows, LAMBDA r : r["validTime"] # InvalidTime)
      parsed  == [i \in 1..Len(kept) |->
                    [kept[i] EXCEPT !["validTime"] = to_datetime(@)]]
      sorted  == SortValues(parsed, "validTime")
      final   == SelectSeq(sorted,
                   LAMBDA r : \A k \in DOMAIN r \ {"validTime"} : ~IsDroppedCell(r[k]))
  IN  [columns |-> SelectSeq(df.columns, LAMBDA c : c # "validTime"),
       index   |-> [i \in 1..Len(final) |-> final[i]["validTime"]],
       rows    |-> [i \in 1..Len(final) |->
                      [k \in DOMAIN final[i] \ {"validTime"} |-> final[i][k]]]]

\* lines 24-26 and 33: filter the sentinel, parse, drop NaT, index by time,
\* sort by time, blank -999, drop every row with a null cell
CleanRows(df) ==
  LET kept    == SelectSeq(df.rows, LAMBDA r : r["validTime"] # InvalidTime)
      parsed  == [i \in 1..Len(kept) |->
                    [kept[i] EXCEPT !["validTime"] = to_datetime(@)]]
      valid   == SelectSeq(parsed, LAMBDA r : r["validTime"] # NaT)
      sorted  == SortValues(valid, "validTime")
      final   == SelectSeq(sorted,
                   LAMBDA r : \A k \in DOMAIN r \ {"validTime"} : ~IsDroppedCell(r[k]))
  IN  [columns |-> SelectSeq(df.columns, LAMBDA c : c # "validTime"),
       index   |-> [i \in 1..Len(final) |-> final[i]["validTime"]],
       rows    |-> [i \in 1..Len(final) |->
                      [k \in DOMAIN final[i] \ {"validTime"} |-> final[i][k]]]]

\* An item of a payload that is no mapping (a number, a string, None) is
\* written [scalar |-> v].
IsMapping(item) == "scalar" \notin DOMAIN item

\* Line 15, pd.DataFrame(data): when the first item is a mapping pandas reads
\* the keys of every item, and an item without keys raises AttributeError;
\* when the first item is a scalar the list becomes one unnamed column.
\* Line 15 is outside the try block of lines 23-30.
parse_timeseries(data, cmap) ==
  IF data.kind # "list" \/ data.items = <<>> THEN Returned(EmptyDataFrame)
  ELSE IF ~IsMapping(data.items[1]) THEN Returned(EmptyDataFrame)
  ELSE IF \E i \in 1..Len(data.items) : ~IsMapping(data.items[i])
    THEN Raised("AttributeError")
  ELSE LET df == RenameColumns(FrameOf(data.items), cmap) IN
    IF ~HasColumn(df, "validTime") THEN Returned(EmptyDataFrame)
    ELSE Returned(CleanRows(df))

(***************************************************************************)
(* logic.py: preprocess_stageflow                                          *)
(***************************************************************************)
\* "not raw_data": None, [] and {} are falsy
Falsy(data) == data.kind = "none" \/ data.items = <<>>

preprocess_stageflow(data, cmap, rating_df_dict) ==
  IF Falsy(data) THEN Returned(EmptyDataFrame)
  ELSE LET parsed == parse_timeseries(data, cmap)
           df     == parsed.value IN
    IF parsed.raised # "" THEN parsed
    ELSE IF IsEmpty(df) THEN Returned(df)
    ELSE IF DfEmpty(rating_df_dict) THEN Returned(df)
    ELSE IF HasColumn(df, "stage_ft") THEN
      LET r == interpolate_flow(GetColumn(df, "stage_ft"), rating_df_dict) IN
      IF r.raised # "" THEN r ELSE Returned(SetColumn(df, "flow_kcfs", r.value))
    ELSE IF HasColumn(df, "flow_cfs") THEN
      LET r == interpolate_stage_cached(GetColumn(df, "flow_cfs"), rating_df_dict) IN
      IF r.raised # "" THEN r ELSE Returned(SetColumn(df, "stage_ft", r.value))
    ELSE Returned(df)

(***************************************************************************)
(* logic.py: compute_percentile_bands.  An ensemble table has one column   *)
(* per member and one row per native timestamp (whole hours, ascending).   *)
(***************************************************************************)
BandNames == <<"p05", "p10", "p25", "p50", "p75", "p90", "p95">>

BandLevel ==
  [p05 |-> 5, p10 |-> 10, p25 |-> 25, p50 |-> 50, p75 |-> 75, p90 |-> 90, p95 |-> 95]

BandKeys == {BandNames[i] : i \in 1..Len(BandNames)}

EmptySeries == MkSeries(<<>>, <<>>)

\* df.dropna(axis=1, how="all"): a column stays if some cell of it is set
DropAllNullColumns(df) ==
  LET keep(c) == \E i \in 1..Len(df.rows) : ~IsNaN(df.rows[i][c])
      cols == SelectSeq(df.columns, keep)
  IN  [columns |-> cols,
       index   |-> df.index,
       rows    |-> [i \in 1..Len(df.rows) |->
                      [c \in {cols[k] : k \in 1..Len(cols)} |-> df.rows[i][c]]]]

RECURSIVE InsertRat(_, _)
InsertRat(v, sorted) ==
  IF sorted = <<>> THEN <<v>>
  ELSE IF RLt(v, Head(sorted)) THEN <<v>> \o sorted
  ELSE <<Head(sorted)>> \o InsertRat(v, Tail(sorted))

RECURSIVE SortRats(_)
SortRats(vals) ==
  IF vals = <<>> THEN <<>>
  ELSE InsertRat(Head(vals), SortRats(Tail(vals)))

RowValuesZeroFilled(df, i) ==
  [k \in 1..Len(df.columns) |->
     IF IsNaN(df.rows[i][df.columns[k]]) THEN Rat(0) ELSE df.rows[i][df.columns[k]]]

\* The set values of one row, in column order.
RowValues(df, i) ==
  LET cells == [k \in 1..Len(df.columns) |-> df.rows[i][df.columns[k]]]
  IN  SelectSeq(cells, LAMBDA v : ~IsNaN(v))

QuantileUnsorted(vals, level) ==
  IF vals = <<>> THEN NaN
  ELSE LET v    == vals
           h100 == (Len(v) - 1) * level
           lo   == h100 \div 100
           frac == Norm(h100 % 100, 100)
       IN  IF h100 % 100 = 0 THEN v[lo + 1]
           ELSE RAdd(v[lo + 1], RMul(frac, RSub(v[lo + 2], v[lo + 1])))

\* quantile(q) of one row, nulls skipped, method "linear": between the
\* ranked values at positions floor(h) and floor(h) + 1, h = (n - 1) q
Quantile(vals, level) ==
  IF vals = <<>> THEN NaN
  ELSE LET v    == SortRats(vals)
           h100 == (Len(v) - 1) * level
           lo   == h100 \div 100
           frac == Norm(h100 % 100, 100)
       IN  IF h100 % 100 = 0 THEN v[lo + 1]
           ELSE RAdd(v[lo + 1], RMul(frac, RSub(v[lo + 2], v[lo + 1])))

\* df.quantile(q, axis=1): one value per native timestamp
RowQuantiles(df, level) ==
  MkSeries(df.index, [i \in 1..Len(df.rows) |-> Quantile(RowValues(df, i), level)])

SetMax(S) == CHOOSE x \in S : \A y \in S : y <= x

SetMin(S) == CHOOSE x \in S : \A y \in S : x <= y

\* s.resample("1h").interpolate("time"): the hourly grid from the first to
\* the last timestamp; a grid hour takes the value that is linear in time
\* between the nearest set values around it; before the first set value it
\* stays null, and after the last one it repeats that value (interpolate
\* fills forward).
ResampleHourly(s) ==
  IF s.index = <<>> THEN EmptySeries
  ELSE LET first == s.index[1]
           last  == s.index[Len(s.index)]
           set   == {i \in 1..Len(s.index) : ~IsNaN(s.values[i])}
           at(h) ==
             LET before == {i \in set : s.index[i] <= h}
                 after  == {i \in set : s.index[i] >= h}
             IN  IF before = {} THEN NaN
                 ELSE IF after = {} THEN s.values[SetMax(before)]
                 ELSE LET a == SetMax(before)
                          b == SetMin(after)
                      IN  IF a = b THEN s.values[a]
                          ELSE RAdd(s.values[a],
                                 RMul(RSub(s.values[b], s.values[a]),
                                      Norm(h - s.index[a], s.index[b] - s.index[a])))
       IN  MkSeries([k \in 1..(last - first + 1) |-> first + k - 1],
                    [k \in 1..(last - first + 1) |-> at(first + k - 1)])

compute_percentile_bands(df0) ==
  LET df == DropAllNullColumns(df0) IN
  IF IsEmpty(df) THEN [k \in BandKeys |-> EmptySeries]
  ELSE [k \in BandKeys |-> ResampleHourly(RowQuantiles(df, BandLevel[k]))]

(***************************************************************************)
(* logic.py: compute_and_interpolate_percentiles                           *)
(***************************************************************************)
EmptyMapping == <<>>

compute_and_interpolate_percentiles(df, rating_df_dict) ==
  IF IsEmpty(df) THEN Returned(EmptyMapping)
  ELSE LET percentiles == compute_percentile_bands(df) IN
    \* rating_df["flow"] on a table without columns; np.interp on a table
    \* without breakpoints
    IF ~rating_df_dict.hasCols THEN Raised("KeyError")
    ELSE IF rating_df_dict.rows = <<>> THEN Raised("ValueError")
    ELSE Returned([k \in BandKeys |->
           MkSeries(percentiles[k].index,
                    NpInterp(percentiles[k].values,
                             Column(rating_df_dict.rows, "flow"),
                             Column(rating_df_dict.rows, "stage")))])

(***************************************************************************)
(* logic.py: compute_exceedance_probabilities.  flood_lines maps a level   *)
(* name to its stage (the colour it also carries is not read).             *)
(***************************************************************************)
\* ensemble_df.loc[period_start:period_end]
SliceRows(df, period_start, period_end) ==
  LET keep == SelectSeq([i \in 1..Len(df.index) |-> i],
                        LAMBDA i : period_start <= df.index[i] /\ df.index[i] <= period_end)
  IN  [columns |-> df.columns,
       index   |-> [k \in 1..Len(keep) |-> df.index[keep[k]]],
       rows    |-> [k \in 1..Len(keep) |-> df.rows[keep[k]]]]

\* One member's flag for one threshold (lines 176-194).
Exceeds(subset, col, rating_df, threshold) ==
  LET flows == SelectSeq([i \in 1..Len(subset.rows) |-> subset.rows[i][col]],
                         LAMBDA v : ~IsNaN(v))
  IN  IF flows = <<>> THEN FALSE
      \* KeyError or ValueError inside the try: the member is flagged False
      ELSE IF ~rating_df.hasCols \/ rating_df.rows = <<>> THEN FALSE
      ELSE LET stages == NpInterp(flows, Column(rating_df.rows, "flow"),
                                  Column(rating_df.rows, "stage"))
           IN  \E i \in 1..Len(stages) : RLt(Rat(threshold), stages[i])

\* np.mean(exceedance_flags) * 100; the mean of no flags is NaN
Probability(subset, rating_df, threshold) ==
  LET n == Len(subset.columns)
      k == Cardinality({c \in 1..n : Exceeds(subset, subset.columns[c], rating_df, threshold)})
  IN  Norm(100 * k, n)

\* The outcomes of the call.  On pd.DataFrame(), whose index is not a time
\* index, whether the slice by two timestamps raises depends on the pandas
\* build: both outcomes are kept.
compute_exceedance_probabilities(df, rating_df, flood_lines, period_start, period_end) ==
  LET subset == SliceRows(df, period_start, period_end)
      result == Returned([level \in DOMAIN flood_lines |->
                            Probability(subset, rating_df, flood_lines[level])])
  IN  IF df = EmptyDataFrame THEN {result, Raised("TypeError")} ELSE {result}

(***************************************************************************)
(* Inputs.  Rating tables: every sequence of at most MaxCurve [stage,      *)
(* flow] rows with pairwise different stages and pairwise different flows, *)
(* in every row order, and the table without columns.  Series: at most     *)
(* MaxSeries values, some below, between, on and above the breakpoints of  *)
(* either column, and NaN; the index is 6-hourly and does not start at 0.  *)
(***************************************************************************)
CurveStages == {2 * i : i \in 1..MaxCurve}

CurveFlows == {100 * i : i \in 1..MaxCurve}

CurveRow == [stage : CurveStages, flow : CurveFlows]

CurveRows ==
  {rows \in UNION {[1..n -> CurveRow] : n \in 0..MaxCurve} :
     \A i, j \in 1..Len(rows) :
        i # j => rows[i].stage # rows[j].stage /\ rows[i].flow # rows[j].flow}

NoCurve == [hasCols |-> FALSE, rows |-> <<>>]

RatingTables == {[hasCols |-> TRUE, rows |-> rows] : rows \in CurveRows} \cup {NoCurve}

SeriesValues == {Rat(3), Rat(4), Rat(5), Rat(150), Rat(200), NaN}

SeriesInputs ==
  UNION {{MkSeries([i \in 1..n |-> 6 * i], vals) : vals \in [1..n -> SeriesValues]} :
           n \in 0..MaxSeries}

NoData == [kind |-> "none", items |-> <<>>]

NoRet == Returned(<<>>)

\* fetch_hefs_timeseries is not running
NoFetch == [pc |-> "idle"]

(***************************************************************************)
(* SpecInterp: the two interpolators applied to one series and one rating  *)
(* table.                                                                  *)
(***************************************************************************)
InitInterp ==
  /\ rating \in RatingTables
  /\ series \in SeriesInputs
  /\ raw_data = NoData
  /\ column_map = <<>>
  /\ ensemble_df = EmptyDataFrame
  /\ args = <<>>
  /\ call = "none"
  /\ ret = NoRet
  /\ session_state = <<>>
  /\ api_cache = <<>>
  /\ provider = <<>>
  /\ used = <<>>
  /\ fetch = NoFetch

CallInterpolateFlow ==
  /\ call = "none"
  /\ call' = "interpolate_flow"
  /\ ret' = interpolate_flow(series, rating)
  /\ UNCHANGED <<inputs, fetch, args, viewer>>

CallInterpolateStage ==
  /\ call = "none"
  /\ call' = "interpolate_stage_cached"
  /\ ret' = interpolate_stage_cached(series, rating)
  /\ UNCHANGED <<inputs, fetch, args, viewer>>

NextInterp == CallInterpolateFlow \/ CallInterpolateStage

SpecInterp == InitInterp /\ [][NextInterp]_vars

(***************************************************************************)
(* Vocabulary of the claims about the interpolators.                       *)
(***************************************************************************)
RowSet(rows) == {rows[i] : i \in 1..Len(rows)}

\* The same (stage, flow) pairs in another row order.
Reorderings(rating_df) ==
  {[hasCols |-> rating_df.hasCols, rows |-> rows] :
     rows \in {r \in CurveRows : Len(r) = Len(rating_df.rows)
                                 /\ RowSet(r) = RowSet(rating_df.rows)}}

SortedBy(rows, key) == \A i \in 1..Len(rows) - 1 : rows[i][key] < rows[i + 1][key]

\* A monotonic relationship: the higher stage has the higher flow.
Monotonic(rows) ==
  \A i, j \in 1..Len(rows) : rows[i].stage < rows[j].stage => rows[i].flow < rows[j].flow

\* v is the piecewise-linear value at x of the table that maps r[from] to
\* r[to], clamped to the first and last breakpoint outside the table's span.
IsPiecewiseLinear(v, x, rows, from, to) ==
  LET bp == RowSet(rows)
      below == {r \in bp : RLe(Rat(r[from]), x)}
      above == {r \in bp : RLe(x, Rat(r[from]))}
  IN  IF IsNaN(x) THEN IsNaN(v)
      ELSE IF below = {} THEN
        \E r \in bp : (\A q \in bp : r[from] <= q[from]) /\ v = Rat(r[to])
      ELSE IF above = {} THEN
        \E r \in bp : (\A q \in bp : q[from] <= r[from]) /\ v = Rat(r[to])
      ELSE
        \E a \in below, b \in above :
          /\ \A q \in below : q[from] <= a[from]
          /\ \A q \in above : b[from] <= q[from]
          /\ IF a = b THEN v = Rat(a[to])
             ELSE RMul(RSub(v, Rat(a[to])), Rat(b[from] - a[from]))
                    = RMul(RSub(x, Rat(a[from])), Rat(b[to] - a[to]))

InStageDomain(x, rows) ==
  /\ \E r \in RowSet(rows) : RLe(Rat(r.stage), x)
  /\ \E r \in RowSet(rows) : RLe(x, Rat(r.stage))

\* C5: every interpolation against an empty rating table (no rows, or no
\* columns) returns NaN for every input element under the input's index and
\* raises nothing.
C5_EmptyCurveGivesNoValue ==
  (call \in {"interpolate_flow", "interpolate_stage_cached"} /\ DfEmpty(rating))
     => (ret.raised = "" /\ ret.value = AllNaN(series))

\* C6: the interpolators return the same result for every row order of the
\* same set of (stage, flow) pairs.
C6_RowOrderIndependent ==
  /\ call = "interpolate_flow"
       => \A r \in Reorderings(rating) : interpolate_flow(series, r) = ret
  /\ call = "interpolate_stage_cached"
       => \A r \in Reorderings(rating) : interpolate_stage_cached(series, r) = ret

\* C7: on a rating table of at least two breakpoints sorted by the
\* independent variable, both interpolators return one output per input, under
\* the input's index, equal to the piecewise-linear interpolation between the
\* surrounding breakpoints and clamped to the first and last breakpoint.
C7_PiecewiseLinear ==
  /\ (call = "interpolate_flow" /\ Len(rating.rows) >= 2 /\ SortedBy(rating.rows, "stage"))
       => /\ ret.raised = ""
          /\ ret.value.index = series.index
          /\ Len(ret.value.values) = Len(series.values)
          /\ \A i \in 1..Len(series.values) :
               IsPiecewiseLinear(ret.value.values[i], series.values[i],
                                 rating.rows, "stage", "flow")
  /\ (call = "interpolate_stage_cached" /\ Len(rating.rows) >= 2)
       => /\ ret.raised = ""
          /\ ret.value.index = series.index
          /\ Len(ret.value.values) = Len(series.values)
          /\ \A i \in 1..Len(series.values) :
               IsPiecewiseLinear(ret.value.values[i], series.values[i],
                                 rating.rows, "flow", "stage")

\* C7's example: curve (1.0 ft, 100), (2.0 ft, 200), (3.0 ft, 300) and stages
\* [1.5 ft, 2.5 ft] give flows [150, 250].
C7_Witness ==
  /\ call = "interpolate_flow"
  /\ rating.rows = <<[stage |-> 2, flow |-> 100], [stage |-> 4, flow |-> 200],
                     [stage |-> 6, flow |-> 300]>>
  /\ series.values = <<Rat(3), Rat(5)>>
  /\ ret.value = MkSeries(<<6, 12>>, <<Rat(150), Rat(250)>>)

\* C8: for a rating curve of at least two points (a monotonic relationship)
\* and a stage s inside the curve's stage span,
\* interpolate_stage_cached(interpolate_flow(s, curve), curve) = s.
C8_RoundTrip ==
  (call = "interpolate_flow" /\ Len(rating.rows) >= 2 /\ Monotonic(rating.rows))
     => LET back == interpolate_stage_cached(ret.value, rating) IN
        /\ back.raised = ""
        /\ \A i \in 1..Len(series.values) :
             InStageDomain(series.values[i], rating.rows)
                => back.value.values[i] = series.values[i]

(***************************************************************************)
(* SpecPrep: parse_timeseries and preprocess_stageflow applied to one      *)
(* provider payload.  Payloads: stage/flow records (validTime, primary,    *)
(* with or without secondary) under the viewer's field map, model records  *)
(* (validTime, flow) under the plots' field map, records without a time    *)
(* field, a mapping and None.  Times are two valid hours, the invalid-time *)
(* sentinel and an unparsable string; cells are a number, -999 and null.   *)
(***************************************************************************)
TimeStrings == {"2025-01-01T06:00:00Z", "2025-01-01T12:00:00Z", InvalidTime, "not a time"}

ObsMap == [primary |-> "stage_ft", secondary |-> "flow_kcfs"]

NwmMap == [flow |-> "flow_cfs"]

StageFlowRecords ==
  [validTime : TimeStrings, primary : {Rat(3), Rat(-999), NaN},
   secondary : {Rat(7), Rat(-999), NaN}]

StageRecords == [validTime : TimeStrings, primary : {Rat(3), Rat(-999), NaN}]

FlowRecords == [validTime : TimeStrings, flow : {Rat(150), Rat(-999), NaN}]

UntimedRecords == [primary : {Rat(3), Rat(-999), NaN}]

\* Records that carry a flow and no stage, under the viewer's field map.
SecondaryRecords == [validTime : TimeStrings, secondary : {Rat(150), Rat(-999), NaN}]

\* Lists in which some item is no mapping.
MixedItems ==
  {[validTime |-> "2025-01-01T06:00:00Z", primary |-> Rat(3)], [scalar |-> Rat(5)]}

ListsOf(S) ==
  {[kind |-> "list", items |-> items] :
     items \in UNION {[1..n -> S] : n \in 0..MaxRecords}}

PrepInputs ==
  (ListsOf(StageFlowRecords) \X {ObsMap})
    \cup (ListsOf(StageRecords) \X {ObsMap})
    \cup (ListsOf(UntimedRecords) \X {ObsMap})
    \cup (ListsOf(SecondaryRecords) \X {ObsMap})
    \cup (ListsOf(MixedItems) \X {ObsMap})
    \cup (ListsOf(FlowRecords) \X {NwmMap})
    \cup ({NoData, [kind |-> "dict", items |-> <<"data">>]} \X {ObsMap})

ExampleCurve ==
  [hasCols |-> TRUE,
   rows |-> <<[stage |-> 2, flow |-> 100], [stage |-> 4, flow |-> 200],
              [stage |-> 6, flow |-> 300]>>]

PrepRatings ==
  {NoCurve, ExampleCurve,
   [hasCols |-> TRUE, rows |-> <<[stage |-> 4, flow |-> 200], [stage |-> 2, flow |-> 100]>>]}

InitPrep ==
  /\ rating \in PrepRatings
  /\ series = EmptySeries
  /\ \E in \in PrepInputs : raw_data = in[1] /\ column_map = in[2]
  /\ ensemble_df = EmptyDataFrame
  /\ args = <<>>
  /\ call = "none"
  /\ ret = NoRet
  /\ session_state = <<>>
  /\ api_cache = <<>>
  /\ provider = <<>>
  /\ used = <<>>
  /\ fetch = NoFetch

CallParseTimeseries ==
  /\ call = "none"
  /\ call' = "parse_timeseries"
  /\ ret' = parse_timeseries(raw_data, column_map)
  /\ UNCHANGED <<inputs, fetch, args, viewer>>

CallPreprocessStageflow ==
  /\ call = "none"
  /\ call' = "preprocess_stageflow"
  /\ ret' = preprocess_stageflow(raw_data, column_map, rating)
  /\ UNCHANGED <<inputs, fetch, args, viewer>>

NextPrep == CallParseTimeseries \/ CallPreprocessStageflow

SpecPrep == InitPrep /\ [][NextPrep]_vars

\* C1: when the normalized series already holds a stage column and a flow
\* column (field map primary -> stage_ft, secondary -> flow_kcfs), then for
\* any non-empty rating curve the table preprocess_stageflow returns holds
\* the cleaned raw stage and flow values in every row.
C1_RawValuesAuthoritative ==
  LET df == parse_timeseries(raw_data, column_map).value IN
  (/\ call = "preprocess_stageflow"
   /\ ~DfEmpty(rating)
   /\ HasColumn(df, "stage_ft") /\ HasColumn(df, "flow_kcfs"))
     => /\ ret.raised = ""
        /\ ret.value.index = df.index
        /\ \A i \in 1..Len(df.rows) :
             /\ ret.value.rows[i]["stage_ft"] = df.rows[i]["stage_ft"]
             /\ ret.value.rows[i]["flow_kcfs"] = df.rows[i]["flow_kcfs"]

(***************************************************************************)
(* Vocabulary of the claims about parse_timeseries.                        *)
(***************************************************************************)
\* The payload is a list of mappings that all carry a validTime field.
IsTimedList(data) ==
  /\ data.kind = "list"
  /\ \A i \in 1..Len(data.items) :
       IsMapping(data.items[i]) /\ "validTime" \in DOMAIN data.items[i]

HasBadTime(r) == r["validTime"] = InvalidTime \/ to_datetime(r["validTime"]) = NaT

HasBadCell(r) == \E k \in DOMAIN r \ {"validTime"} : r[k] = Rat(-999) \/ IsNaN(r[k])

WithoutBadTimes(data) ==
  [kind |-> "list", items |-> SelectSeq(data.items, LAMBDA r : ~HasBadTime(r))]

\* The row that a raw record becomes under a field map.
RowOf(r, cmap) ==
  [k \in {Renamed(c, cmap) : c \in DOMAIN r \ {"validTime"}} |->
     LET c == CHOOSE c \in DOMAIN r \ {"validTime"} : Renamed(c, cmap) = k IN r[c]]

\* A timestamp of a returned table written as the provider writes times.
FormatTime(t) ==
  CASE t = 6 -> "2025-01-01T06:00:00Z"
    [] t = 12 -> "2025-01-01T12:00:00Z"
    [] OTHER -> NullTime

\* The records of a returned table, under the table's own field names.
RecordsOf(df) ==
  [kind  |-> "list",
   items |-> [i \in 1..Len(df.rows) |->
                [k \in DOMAIN df.rows[i] \cup {"validTime"} |->
                   IF k = "validTime" THEN FormatTime(df.index[i]) ELSE df.rows[i][k]]]]

NoMap == <<>>

\* C11: parse_timeseries on a list of timed records never fails, its output
\* holds no row whose raw time is the sentinel or cannot be parsed, and the
\* output is the one the same list gives once those records are taken out.
C11_BadTimesFiltered ==
  (call = "parse_timeseries" /\ IsTimedList(raw_data))
     => LET clean == parse_timeseries(WithoutBadTimes(raw_data), column_map) IN
        /\ ret.raised = ""
        /\ \A i \in 1..Len(ret.value.index) : ret.value.index[i] \in {6, 12}
        /\ ret.value.index = clean.value.index
        /\ ret.value.rows = clean.value.rows

\* A sentinel record and an unparsable record beside a record that stays.
C11_Witness ==
  /\ call = "parse_timeseries"
  /\ IsTimedList(raw_data)
  /\ \E i \in 1..Len(raw_data.items) : HasBadTime(raw_data.items[i])
  /\ Len(ret.value.index) >= 1

\* C12: in every table parse_timeseries returns no cell is null or -999; the
\* rows of the table are exactly the input records with a valid time and no
\* null or -999 cell, one row each, with the record's time and values.
C12_StrictCleaning ==
  (call = "parse_timeseries" /\ IsTimedList(raw_data) /\ raw_data.items # <<>>)
     => LET good == SelectSeq(raw_data.items,
                      LAMBDA r : ~HasBadTime(r) /\ ~HasBadCell(r))
            out  == ret.value IN
        /\ ret.raised = ""
        /\ \A i \in 1..Len(out.rows) : \A k \in DOMAIN out.rows[i] :
             out.rows[i][k] # Rat(-999) /\ ~IsNaN(out.rows[i][k])
        /\ Len(out.rows) = Len(good)
        /\ \A j \in 1..Len(good) : \E i \in 1..Len(out.rows) :
             /\ out.index[i] = to_datetime(good[j]["validTime"])
             /\ out.rows[i] = RowOf(good[j], column_map)

\* A record with -999 is dropped beside a clean record that is kept.
C12_Witness ==
  /\ call = "parse_timeseries"
  /\ IsTimedList(raw_data)
  /\ \E i \in 1..Len(raw_data.items) :
       ~HasBadTime(raw_data.items[i])
          /\ \E k \in DOMAIN raw_data.items[i] \ {"validTime"} :
               raw_data.items[i][k] = Rat(-999)
  /\ Len(ret.value.rows) = 1

\* C13: the time index of every table parse_timeseries returns is strictly
\* increasing (sorted, no timestamp twice).
C13_IndexStrictlyIncreasing ==
  (call = "parse_timeseries" /\ ret.raised = "")
     => \A i \in 1..Len(ret.value.index) - 1 :
          ret.value.index[i] < ret.value.index[i + 1]

\* C14: parsing the records of a returned table again, under the identity
\* field map, gives a table with the same index and the same rows.
C14_Idempotent ==
  (call = "parse_timeseries" /\ ret.raised = "")
     => LET again == parse_timeseries(RecordsOf(ret.value), NoMap) IN
        /\ again.raised = ""
        /\ again.value.index = ret.value.index
        /\ again.value.rows = ret.value.rows

\* A table of two rows that is parsed again.
C14_Witness ==
  /\ call = "parse_timeseries"
  /\ Len(ret.value.rows) = 2
  /\ parse_timeseries(RecordsOf(ret.value), NoMap).value.index = ret.value.index

\* C15: parse_timeseries raises nothing and returns the empty table when the
\* input is empty, is no list, holds an item that is no mapping, or has no
\* validTime field after renaming; preprocess_stageflow raises nothing and
\* returns an empty table when the raw records are empty or normalize to
\* nothing.
C15_NeverRaises ==
  /\ call = "parse_timeseries"
       => /\ ret.raised = ""
          /\ (\/ raw_data.kind # "list"
              \/ raw_data.items = <<>>
              \/ \E i \in 1..Len(raw_data.items) : ~IsMapping(raw_data.items[i])
              \/ ~IsTimedList(raw_data))
               => ret.value = EmptyDataFrame
  /\ call = "preprocess_stageflow"
       => /\ ret.raised = ""
          /\ (Falsy(raw_data) \/ IsEmpty(parse_timeseries(raw_data, column_map).value))
               => IsEmpty(ret.value)

\* C16: with a non-empty rating curve, a normalized series with a stage
\* column and no flow column comes back with a flow column equal to
\* interpolate_flow of the stage column, and one with a flow column
\* (flow_kcfs or flow_cfs) and no stage column comes back with a stage column
\* equal to interpolate_stage_cached of the flow column.
C16_DerivesMissingColumn ==
  LET df      == parse_timeseries(raw_data, column_map).value
      flowCol == IF HasColumn(df, "flow_cfs") THEN "flow_cfs" ELSE "flow_kcfs"
      hasFlow == HasColumn(df, "flow_cfs") \/ HasColumn(df, "flow_kcfs")
  IN
  (/\ call = "preprocess_stageflow"
   /\ parse_timeseries(raw_data, column_map).raised = ""
   /\ ~IsEmpty(df) /\ ~DfEmpty(rating))
     => /\ (HasColumn(df, "stage_ft") /\ ~hasFlow)
             => /\ ret.raised = ""
                /\ HasColumn(ret.value, "flow_kcfs")
                /\ GetColumn(ret.value, "flow_kcfs")
                     = interpolate_flow(GetColumn(df, "stage_ft"), rating).value
        /\ (hasFlow /\ ~HasColumn(df, "stage_ft"))
             => /\ ret.raised = ""
                /\ HasColumn(ret.value, "stage_ft")
                /\ GetColumn(ret.value, "stage_ft")
                     = interpolate_stage_cached(GetColumn(df, flowCol), rating).value

(***************************************************************************)
(* SpecBands: the band engine, its stage projection and the risk engine    *)
(* applied to one ensemble table.  Tables: up to MaxMembers member columns *)
(* over the first 0..3 of the native timestamps 0 h, 2 h, 3 h; each member *)
(* is flat, rising, falling, all null, or null at its head or tail.  The   *)
(* table pd.DataFrame() (no members fetched) is the one without columns    *)
(* and rows.                                                               *)
(***************************************************************************)
NativeTimes == <<0, 2, 3>>

MemberProfiles ==
  {<<Rat(100), Rat(100), Rat(100)>>, <<Rat(100), Rat(200), Rat(300)>>,
   <<Rat(300), Rat(200), Rat(100)>>, <<NaN, NaN, NaN>>,
   <<NaN, Rat(300), Rat(100)>>, <<Rat(200), NaN, NaN>>}

MemberName(k) == <<"member_1", "member_2", "member_3", "member_4", "member_5">>[k]

EnsembleOf(members, n) ==
  [columns |-> [k \in 1..Len(members) |-> MemberName(k)],
   index   |-> SubSeq(NativeTimes, 1, n),
   rows    |-> [i \in 1..n |->
                  [c \in {MemberName(k) : k \in 1..Len(members)} |->
                     LET k == CHOOSE k \in 1..Len(members) : MemberName(k) = c
                     IN  members[k][i]]]]

EnsembleTables ==
  {EnsembleOf(members, n) :
     members \in UNION {[1..m -> MemberProfiles] : m \in 0..MaxMembers},
     n \in 0..Len(NativeTimes)}

EmptyRowsCurve == [hasCols |-> TRUE, rows |-> <<>>]

BandRatings ==
  {NoCurve, EmptyRowsCurve, ExampleCurve,
   [hasCols |-> TRUE, rows |-> <<[stage |-> 4, flow |-> 200], [stage |-> 2, flow |-> 100]>>]}

\* Thresholds in half feet; ExampleCurve puts flow 200 at stage 4.
FloodLineSets ==
  {<<>>, [moderate |-> 4], [minor |-> 5], [action |-> 3, moderate |-> 4, major |-> 7]}

Periods == {<<0, 3>>, <<0, 2>>, <<0, 0>>, <<3, 3>>, <<3, 0>>}

InitBands ==
  /\ rating \in BandRatings
  /\ series = EmptySeries
  /\ raw_data = NoData
  /\ column_map = <<>>
  /\ ensemble_df \in EnsembleTables
  /\ args = <<>>
  /\ call = "none"
  /\ ret = NoRet
  /\ session_state = <<>>
  /\ api_cache = <<>>
  /\ provider = <<>>
  /\ used = <<>>
  /\ fetch = NoFetch

CallComputePercentileBands ==
  /\ call = "none"
  /\ call' = "compute_percentile_bands"
  /\ ret' = Returned(compute_percentile_bands(ensemble_df))
  /\ UNCHANGED <<inputs, fetch, args, viewer>>

CallComputeAndInterpolatePercentiles ==
  /\ call = "none"
  /\ call' = "compute_and_interpolate_percentiles"
  /\ ret' = compute_and_interpolate_percentiles(ensemble_df, rating)
  /\ UNCHANGED <<inputs, fetch, args, viewer>>

CallComputeExceedanceProbabilities ==
  /\ call = "none"
  /\ \E flood_lines \in FloodLineSets, period \in Periods :
       /\ args' = [flood_lines |-> flood_lines,
                   period_start |-> period[1], period_end |-> period[2]]
       /\ ret' \in compute_exceedance_probabilities(
                     ensemble_df, rating, flood_lines, period[1], period[2])
  /\ call' = "compute_exceedance_probabilities"
  /\ UNCHANGED <<inputs, fetch, viewer>>

NextBands ==
  \/ CallComputePercentileBands
  \/ CallComputeAndInterpolatePercentiles
  \/ CallComputeExceedanceProbabilities

SpecBands == InitBands /\ [][NextBands]_vars

(***************************************************************************)
(* Vocabulary of the claims about the bands.                               *)
(***************************************************************************)
\* No rows, no member columns, or only all-null columns.
IsEmptyEnsemble(df) == IsEmpty(DropAllNullColumns(df))

SevenEmptySeries == [k \in BandKeys |-> EmptySeries]

\* The seven bands share one index and are ordered wherever all are set.
BandsOrdered(bands) ==
  /\ \A k \in BandKeys : bands[k].index = bands["p05"].index
  /\ \A i \in 1..Len(bands["p05"].index) :
       (\A k \in BandKeys : ~IsNaN(bands[k].values[i]))
          => \A j \in 1..Len(BandNames) - 1 :
               RLe(bands[BandNames[j]].values[i], bands[BandNames[j + 1]].values[i])

\* C3: compute_and_interpolate_percentiles returns, for every ensemble table
\* including an empty one (and a usable rating curve), a mapping with exactly
\* the seven band keys; for an empty ensemble each of the seven series is
\* empty.
C3_SevenKeysAlways ==
  (call = "compute_and_interpolate_percentiles" /\ ~DfEmpty(rating))
     => /\ ret.raised = ""
        /\ DOMAIN ret.value = BandKeys
        /\ IsEmptyEnsemble(ensemble_df) => ret.value = SevenEmptySeries

\* C4: on an empty ensemble table compute_percentile_bands returns seven
\* empty series, and whatever compute_exceedance_probabilities returns there
\* is an empty mapping or gives probability 0 (a number) for every threshold.
\* (The claim also rules out a raise; the formula below does not need that
\* part to fail.)
C4_EmptyEnsembleStable ==
  IsEmptyEnsemble(ensemble_df)
     => /\ call = "compute_percentile_bands" => ret.value = SevenEmptySeries
        /\ (call = "compute_exceedance_probabilities" /\ ret.raised = "")
              => \A level \in DOMAIN ret.value : ret.value[level] = Rat(0)

\* C9: at every timestamp of the hourly grid at which all seven bands
\* returned by compute_percentile_bands are set,
\* p05 <= p10 <= p25 <= p50 <= p75 <= p90 <= p95.
C9_FlowBandsOrdered ==
  call = "compute_percentile_bands" => BandsOrdered(ret.value)

\* A table whose bands are strictly apart at an hour between two native
\* timestamps (hour 1).
C9_Witness ==
  /\ call = "compute_percentile_bands"
  /\ Len(ret.value["p05"].index) >= 2
  /\ ret.value["p05"].index[2] = 1
  /\ \A j \in 1..Len(BandNames) - 1 :
       RLt(ret.value[BandNames[j]].values[2], ret.value[BandNames[j + 1]].values[2])

\* The members of table df that have a sample at its i-th timestamp.
PresentAt(df, i) ==
  {k \in 1..Len(df.columns) : ~IsNaN(df.rows[i][df.columns[k]])}

\* The value of rank r (0 the smallest) among the samples of the members
\* in P at the i-th timestamp: fewer than r + 1 samples are below it and at
\* least r + 1 samples are not above it.
RankedAt(df, i, P, r) ==
  LET val(k) == df.rows[i][df.columns[k]]
      k0 == CHOOSE k \in P :
              /\ Cardinality({j \in P : RLt(val(j), val(k))}) <= r
              /\ Cardinality({j \in P : RLe(val(j), val(k))}) >= r + 1
  IN  val(k0)

\* The linear-interpolation quantile of those samples: with h = (n - 1) q,
\* the value of rank floor(h) plus the fraction of h of the step to the
\* next rank.
LinearQuantileAt(df, i, level) ==
  LET P    == PresentAt(df, i)
      h100 == (Cardinality(P) - 1) * level
      lo   == h100 \div 100
  IN  IF P = {} THEN NaN
      ELSE IF h100 % 100 = 0 THEN RankedAt(df, i, P, lo)
      ELSE RAdd(RankedAt(df, i, P, lo),
                RMul(Norm(h100 % 100, 100),
                     RSub(RankedAt(df, i, P, lo + 1), RankedAt(df, i, P, lo))))

\* Position of hour h in a band's hourly index (0 if absent).
HourPos(band, h) ==
  IF \E k \in 1..Len(band.index) : band.index[k] = h
    THEN CHOOSE k \in 1..Len(band.index) : band.index[k] = h
    ELSE 0

\* C26: compute_percentile_bands keeps exactly the member columns that
\* have some sample, and at every native timestamp each band's value
\* before resampling is the linear-interpolation quantile of the samples
\* the members have at that timestamp, missing cells being ignored; where
\* some member has a sample, the returned band holds that value at that
\* hour.
C26_NativeQuantiles ==
  call = "compute_percentile_bands" =>
    LET df == DropAllNullColumns(ensemble_df) IN
    /\ {df.columns[k] : k \in 1..Len(df.columns)}
         = {ensemble_df.columns[k] : k \in
              {j \in 1..Len(ensemble_df.columns) :
                 \E i \in 1..Len(ensemble_df.index) : j \in PresentAt(ensemble_df, i)}}
    /\ ~IsEmpty(df) =>
         \A b \in BandKeys : \A i \in 1..Len(ensemble_df.index) :
           LET q == LinearQuantileAt(ensemble_df, i, BandLevel[b]) IN
           /\ RowQuantiles(df, BandLevel[b]).values[i] = q
           /\ ~IsNaN(q) =>
                LET pos == HourPos(ret.value[b], ensemble_df.index[i])
                IN  pos # 0 /\ ret.value[b].values[pos] = q

\* Members with the samples 100, 200, 300 at the first timestamp, one of
\* them without a sample at the second: the median band starts at 200.
C26_Witness ==
  /\ call = "compute_percentile_bands"
  /\ Len(ensemble_df.columns) = 3
  /\ Len(ensemble_df.index) >= 2
  /\ ensemble_df.rows[1]["member_1"] = Rat(100)
  /\ ensemble_df.rows[1]["member_2"] = Rat(200)
  /\ ensemble_df.rows[1]["member_3"] = Rat(300)
  /\ IsNaN(ensemble_df.rows[2]["member_2"])
  /\ ret.value["p50"].values[1] = Rat(200)

\* C27: each band returned by compute_percentile_bands is indexed by the
\* hourly grid from the first to the last native timestamp; at a native
\* timestamp it holds the native quantile, and at an hour between two
\* consecutive native timestamps the time-weighted linear interpolation of
\* the native quantiles at those two timestamps.
C27_HourlyResampling ==
  (call = "compute_percentile_bands" /\ ~IsEmpty(DropAllNullColumns(ensemble_df))) =>
    \A b \in BandKeys :
      LET native == RowQuantiles(DropAllNullColumns(ensemble_df), BandLevel[b])
          band   == ret.value[b]
          n      == Len(native.index)
          first  == native.index[1]
          last   == native.index[n]
      IN  /\ band.index = [k \in 1..(last - first + 1) |-> first + k - 1]
          /\ \A i \in 1..n :
               band.values[native.index[i] - first + 1] = native.values[i]
          /\ \A i \in 1..(n - 1) :
               \A h \in (native.index[i] + 1)..(native.index[i + 1] - 1) :
                 band.values[h - first + 1]
                   = IF IsNaN(native.values[i]) \/ IsNaN(native.values[i + 1]) THEN NaN
                     ELSE RAdd(native.values[i],
                               RMul(RSub(native.values[i + 1], native.values[i]),
                                    Norm(h - native.index[i],
                                         native.index[i + 1] - native.index[i])))

\* C10: for every ensemble table and every supplied rating curve (a
\* monotonic relationship with at least one row), the stage-space bands
\* returned by compute_and_interpolate_percentiles are ordered at every
\* timestamp: p05 <= p10 <= p25 <= p50 <= p75 <= p90 <= p95.
C10_StageBandsOrdered ==
  (/\ call = "compute_and_interpolate_percentiles"
   /\ ~DfEmpty(rating) /\ Monotonic(rating.rows)
   /\ ~IsEmpty(ensemble_df))
     => ret.raised = "" /\ BandsOrdered(ret.value)

\* Member col exceeds a threshold in the window: at some timestamp of the
\* window it has a flow whose stage, read off the rating curve sorted by
\* flow, is above the threshold.  Without a rating curve no stage is known.
MemberExceeds(df, col, rating_df, threshold, period_start, period_end) ==
  /\ ~DfEmpty(rating_df)
  /\ \E i \in 1..Len(df.index) :
       /\ period_start <= df.index[i] /\ df.index[i] <= period_end
       /\ ~IsNaN(df.rows[i][col])
       /\ LET sorted == SortValues(rating_df.rows, "flow")
              stage  == InterpOne(df.rows[i][col], Column(sorted, "flow"),
                                  Column(sorted, "stage"))
          IN  RLt(Rat(threshold), stage)

ExceedingShare(df, rating_df, threshold, period_start, period_end) ==
  LET n == Len(df.columns)
      k == Cardinality({c \in 1..n :
             MemberExceeds(df, df.columns[c], rating_df, threshold,
                           period_start, period_end)})
  IN  Norm(100 * k, n)

\* C20: compute_exceedance_probabilities returns one entry per threshold
\* name; each entry is 100 x (member columns that exceed the threshold in
\* the window) / (all member columns of the table), a number in [0, 100].
C20_ExceedanceShare ==
  call = "compute_exceedance_probabilities"
     => /\ ret.raised = ""
        /\ DOMAIN ret.value = DOMAIN args.flood_lines
        /\ \A level \in DOMAIN args.flood_lines :
             /\ ~IsNaN(ret.value[level])
             /\ RLe(Rat(0), ret.value[level]) /\ RLe(ret.value[level], Rat(100))
             /\ ret.value[level]
                  = ExceedingShare(ensemble_df, rating, args.flood_lines[level],
                                   args.period_start, args.period_end)

\* Member col has a set sample at some timestamp of the window.
HasSampleIn(df, col, period_start, period_end) ==
  \E i \in 1..Len(df.index) :
    /\ period_start <= df.index[i] /\ df.index[i] <= period_end
    /\ ~IsNaN(df.rows[i][col])

\* The flag the call computed for member col and one threshold.
FlagOf(col, threshold) ==
  Exceeds(SliceRows(ensemble_df, args.period_start, args.period_end),
          col, rating, threshold)

\* C21: a member is flagged as exceeding a threshold exactly when it has a
\* set sample at a timestamp t, period_start <= t <= period_end, whose stage
\* on the rating curve is strictly above the threshold.
C21_ExceedsInWindowStrictly ==
  (call = "compute_exceedance_probabilities" /\ ret.raised = "")
     => \A level \in DOMAIN args.flood_lines :
          \A c \in 1..Len(ensemble_df.columns) :
            FlagOf(ensemble_df.columns[c], args.flood_lines[level])
              <=> MemberExceeds(ensemble_df, ensemble_df.columns[c], rating,
                                args.flood_lines[level],
                                args.period_start, args.period_end)

\* C22: a member without a set sample in the window, or whose interpolation
\* fails, is flagged as not exceeding and every threshold still gets its
\* entry; with an inverted window and with a missing rating curve every
\* threshold's probability is 0 and nothing is raised.
C22_NoSampleNeverExceeds ==
  call = "compute_exceedance_probabilities"
     => /\ ret.raised = ""
        /\ DOMAIN ret.value = DOMAIN args.flood_lines
        /\ \A level \in DOMAIN args.flood_lines :
             /\ \A c \in 1..Len(ensemble_df.columns) :
                  (\/ ~HasSampleIn(ensemble_df, ensemble_df.columns[c],
                                   args.period_start, args.period_end)
                   \/ DfEmpty(rating))
                     => ~FlagOf(ensemble_df.columns[c], args.flood_lines[level])
             /\ (args.period_start > args.period_end \/ DfEmpty(rating))
                  => ret.value[level] = Rat(0)

\* C28: within one call, a threshold with the lower (or equal) stage has the
\* higher (or equal) probability.
C28_ThresholdMonotone ==
  (call = "compute_exceedance_probabilities" /\ ret.raised = "")
     => \A a, b \in DOMAIN args.flood_lines :
          args.flood_lines[a] <= args.flood_lines[b]
             => RLe(ret.value[b], ret.value[a])

\* C29: the probability over a window contained in the window of the call
\* is at most the probability the call returned, for every threshold.
C29_WindowMonotone ==
  (call = "compute_exceedance_probabilities" /\ ret.raised = "")
     => \A w \in Periods :
          (args.period_start <= w[1] /\ w[2] <= args.period_end)
             => \A inner \in compute_exceedance_probabilities(
                               ensemble_df, rating, args.flood_lines, w[1], w[2]) :
                  inner.raised = ""
                     => \A level \in DOMAIN args.flood_lines :
                          RLe(inner.value[level], ret.value[level])

(***************************************************************************)
(* SpecViewer: the main block of hydro_viewer.py (lines 346-490), run      *)
(* again and again in one browser session.  What the upstream services     *)
(* hold for a gauge is a stamp [version, has_data]; every table carries    *)
(* the stamp of the fetch it was derived from, and the percentile set the  *)
(* stamps of the ensemble table and of the rating curve it was computed    *)
(* from.  A run is one step: the st.rerun() after a change of the ensemble *)
(* toggle repeats the script with the same widget values and the same      *)
(* upstream data.  The four cached getters that load_data calls are        *)
(* filled and cleared together and are one cache here, and so are the      *)
(* header and member caches of the ensemble service.                       *)
(***************************************************************************)
Gauges == {"CDFP1", "MRGL1"}

Absent == [version |-> 0, has_data |-> FALSE]

NoPercentiles == [ensemble |-> Absent, rating |-> Absent]

NoKeys ==
  [raw |-> Absent, observed_df |-> Absent, forecast_df |-> Absent,
   forecast_flow |-> Absent, ensemble_df |-> Absent, percentiles_interp |-> NoPercentiles]

NoRun ==
  [gauge |-> "", bypass |-> FALSE, stopped |-> FALSE, fetched |-> Absent, raw |-> Absent,
   observed_df |-> Absent, forecast_df |-> Absent, forecast_flow |-> Absent,
   ensemble_shown |-> FALSE, ensemble_df |-> Absent, percentiles_interp |-> NoPercentiles]

InitViewer ==
  /\ rating = NoCurve
  /\ series = EmptySeries
  /\ raw_data = NoData
  /\ column_map = <<>>
  /\ ensemble_df = EmptyDataFrame
  /\ args = <<>>
  /\ call = "none"
  /\ ret = NoRet
  /\ session_state = [keys |-> [g \in Gauges |-> NoKeys], show_ensemble |-> "unset"]
  /\ api_cache = [load |-> [g \in Gauges |-> Absent], hefs |-> [g \in Gauges |-> Absent]]
  /\ provider \in [Gauges -> [version : {1}, has_data : BOOLEAN]]
  /\ used = NoRun
  /\ fetch = NoFetch

\* The upstream services publish new data for a gauge.
ProviderUpdate(g) ==
  /\ provider[g].version < MaxVersion
  /\ \E d \in BOOLEAN :
       provider' = [provider EXCEPT ![g] = [version |-> @.version + 1, has_data |-> d]]
  /\ UNCHANGED <<inputs, fetch, args, call, ret, session_state, api_cache, used>>

\* An st.cache_data entry outlives its ttl (600 s for the getters, 300 s for
\* the ensemble headers).
ExpireLoad(g) ==
  /\ api_cache.load[g] # Absent
  /\ api_cache' = [api_cache EXCEPT !.load[g] = Absent]
  /\ UNCHANGED <<inputs, fetch, args, call, ret, session_state, provider, used>>

ExpireHefs(g) ==
  /\ api_cache.hefs[g] # Absent
  /\ api_cache' = [api_cache EXCEPT !.hefs[g] = Absent]
  /\ UNCHANGED <<inputs, fetch, args, call, ret, session_state, provider, used>>

\* One run of the main block for gauge nws_id.
RunOf(nws_id, bypass_cache, show_ensemble) ==
  LET keys      == session_state.keys[nws_id]
      \* load_data, bypass: fn.clear() empties the getters' caches (every gauge)
      cleared   == IF bypass_cache THEN [g \in Gauges |-> Absent] ELSE api_cache.load
      loads     == keys.raw = Absent \/ bypass_cache
      got       == IF cleared[nws_id] # Absent THEN cleared[nws_id] ELSE provider[nws_id]
      raw       == IF loads THEN got ELSE keys.raw
      observed  == IF keys.observed_df = Absent THEN raw ELSE keys.observed_df
      forecast  == IF keys.forecast_df = Absent THEN raw ELSE keys.forecast_df
      flow      == IF keys.forecast_flow = Absent THEN forecast ELSE keys.forecast_flow
      \* Step 5: st.stop() when there is nothing to show
      stops     == ~observed.has_data /\ ~forecast.has_data /\ ~raw.has_data
      asks      == ~stops /\ show_ensemble
      headers   == IF api_cache.hefs[nws_id] # Absent THEN api_cache.hefs[nws_id]
                   ELSE provider[nws_id]
      shown     == asks /\ headers.has_data
      ensemble  == IF keys.ensemble_df = Absent THEN headers ELSE keys.ensemble_df
      bands     == IF keys.percentiles_interp = NoPercentiles
                   THEN [ensemble |-> ensemble, rating |-> raw]
                   ELSE keys.percentiles_interp
  IN
  /\ api_cache' =
       [load |-> IF loads THEN [cleared EXCEPT ![nws_id] = got] ELSE api_cache.load,
        hefs |-> IF asks THEN [api_cache.hefs EXCEPT ![nws_id] = headers]
                 ELSE api_cache.hefs]
  /\ session_state' =
       [keys |-> [session_state.keys EXCEPT ![nws_id] =
                    [raw |-> raw, observed_df |-> observed, forecast_df |-> forecast,
                     forecast_flow |-> flow,
                     ensemble_df |-> IF shown THEN ensemble ELSE keys.ensemble_df,
                     percentiles_interp |->
                       IF shown THEN bands ELSE keys.percentiles_interp]],
        show_ensemble |-> show_ensemble]
  /\ used' =
       [gauge |-> nws_id, bypass |-> bypass_cache, stopped |-> stops,
        fetched |-> provider[nws_id],
        raw |-> raw, observed_df |-> observed, forecast_df |-> forecast,
        forecast_flow |-> flow, ensemble_shown |-> shown,
        ensemble_df |-> IF shown THEN ensemble ELSE Absent,
        percentiles_interp |-> IF shown THEN bands ELSE NoPercentiles]
  /\ UNCHANGED <<inputs, fetch, args, call, ret, provider>>

Run == \E nws_id \in Gauges, bypass_cache \in BOOLEAN, show_ensemble \in BOOLEAN :
         RunOf(nws_id, bypass_cache, show_ensemble)

NextViewer ==
  \/ Run
  \/ \E g \in Gauges : ProviderUpdate(g)
  \/ \E g \in Gauges : ExpireLoad(g)
  \/ \E g \in Gauges : ExpireHefs(g)

SpecViewer == InitViewer /\ [][NextViewer]_vars

\* C2: a run for gauge g with the bypass flag set (one that goes on to
\* render) ends with every table it uses for g (raw load, observed table,
\* forecast table, forecast flow, ensemble table, percentile set) derived
\* from the data fetched in that run.
C2_BypassServesFreshTables ==
  (used.gauge # "" /\ used.bypass /\ ~used.stopped)
     => /\ used.raw = used.fetched
        /\ used.observed_df = used.fetched
        /\ used.forecast_df = used.fetched
        /\ used.forecast_flow = used.fetched
        /\ used.ensemble_shown
             => /\ used.ensemble_df = used.fetched
                /\ used.percentiles_interp = [ensemble |-> used.fetched,
                                              rating |-> used.fetched]

(***************************************************************************)
(* SpecMerge: api.py, fetch_hefs_timeseries.  The header ids are split     *)
(* into chunks; the members of a chunk are fetched by a thread pool and    *)
(* their futures are taken in completion order (as_completed), which the   *)
(* scheduler and the network decide; every non-empty series is appended to *)
(* all_flows as it arrives and the list is handed to pd.concat(axis=1).    *)
(* A header is its id, 0 for a header without one.  A member series is     *)
(* [name, index, values]; member h holds 100 h + i at its i-th sample.     *)
(* Of a submitted fetch the model keeps whether its thread is still        *)
(* running (running), whether its future has been taken by the main loop   *)
(* (pending until then) and how often each header's fetch was started.     *)
(***************************************************************************)
ChunkSizes == {2, 25}

HeaderLists ==
  LET withIds == {[i \in 1..n |-> i] : n \in 0..MaxHeaders}
  IN  withIds \cup {<<0>> \o h : h \in withIds}

\* What the ensemble service answers for one member: an error or no events,
\* events without a parsable time, or samples at the listed hours.
SampleTimes == {<<0>>, <<0, 6>>, <<6>>, <<6, 6>>}

MemberOutcomes ==
  {[kind |-> "error", index |-> <<>>], [kind |-> "empty", index |-> <<>>]}
    \cup {[kind |-> "series", index |-> ix] : ix \in SampleTimes}

NoMember == [name |-> "None", index |-> <<>>, values |-> <<>>]

UnnamedEmpty == [name |-> "", index |-> <<>>, values |-> <<>>]

\* lines 110-137: None on an exception or without events, else the value
\* column under the parsed times, named member_<id>
fetch_single_hefs_member(header_id, outcome) ==
  IF outcome.kind = "error" THEN NoMember
  ELSE [name   |-> MemberName(header_id),
        index  |-> outcome.index,
        values |-> [i \in 1..Len(outcome.index) |-> Rat(100 * header_id + i)]]

\* lines 145-154
safe_fetch(header_id, outcome) ==
  LET ts == fetch_single_hefs_member(header_id, outcome)
  IN  IF ts # NoMember /\ ts.index # <<>> THEN ts ELSE UnnamedEmpty

HasDuplicates(ix) == \E i, j \in 1..Len(ix) : i # j /\ ix[i] = ix[j]

RECURSIVE SortedSeqOf(_)
SortedSeqOf(S) ==
  IF S = {} THEN <<>> ELSE <<SetMin(S)>> \o SortedSeqOf(S \ {SetMin(S)})

\* pd.concat(all_flows, axis=1): one column per series in list order.  Equal
\* indexes are kept as they are; otherwise the index is the sorted union of
\* the members' DatetimeIndexes and every series is reindexed to it, which
\* raises for a series whose own index repeats a timestamp.
concat(all_flows) ==
  LET n     == Len(all_flows)
      same  == \A k \in 1..n : all_flows[k].index = all_flows[1].index
      times == UNION {{all_flows[k].index[i] : i \in 1..Len(all_flows[k].index)} :
                        k \in 1..n}
      index == IF same THEN all_flows[1].index ELSE SortedSeqOf(times)
      Cell(k, i) ==
        IF same THEN all_flows[k].values[i]
        ELSE IF \E j \in 1..Len(all_flows[k].index) : all_flows[k].index[j] = index[i]
          THEN all_flows[k].values[CHOOSE j \in 1..Len(all_flows[k].index) :
                                     all_flows[k].index[j] = index[i]]
          ELSE NaN
  IN  IF ~same /\ \E k \in 1..n : HasDuplicates(all_flows[k].index)
        THEN Raised("InvalidIndexError")
      ELSE Returned(
        [columns |-> [k \in 1..n |-> all_flows[k].name],
         index   |-> index,
         rows    |-> [i \in 1..Len(index) |->
                        [c \in {all_flows[k].name : k \in 1..n} |->
                           Cell(CHOOSE k \in 1..n : all_flows[k].name = c, i)]]])

\* lines 182-194: no series, or a failed concat, gives pd.DataFrame()
MergeResult(all_flows) ==
  IF all_flows = <<>> THEN Returned(EmptyDataFrame)
  ELSE LET df_out == concat(all_flows) IN
    IF df_out.raised # "" THEN Returned(EmptyDataFrame) ELSE df_out

\* line 156
HeaderIds(headers) == SelectSeq(headers, LAMBDA id : id # 0)

InitMerge ==
  /\ rating = NoCurve
  /\ series = EmptySeries
  /\ raw_data = NoData
  /\ column_map = <<>>
  /\ ensemble_df = EmptyDataFrame
  /\ \E headers \in HeaderLists, chunk_size \in ChunkSizes :
       \E outcomes \in [{headers[i] : i \in 1..Len(headers)} \ {0} -> MemberOutcomes] :
         args = [headers |-> headers, chunk_size |-> chunk_size, outcomes |-> outcomes]
  /\ call = "none"
  /\ ret = NoRet
  /\ session_state = <<>>
  /\ api_cache = <<>>
  /\ provider = <<>>
  /\ used = <<>>
  /\ fetch = [pc |-> "start", rest |-> <<>>, pending |-> {}, all_flows |-> <<>>,
              running |-> {}, started |-> [h \in 0..MaxHeaders |-> 0],
              total |-> 0, completed |-> 0]

\* lines 156-166
FetchBegin ==
  /\ fetch.pc = "start"
  /\ call' = "fetch_hefs_timeseries"
  /\ LET header_ids == HeaderIds(args.headers) IN
       IF Len(header_ids) = 0
       THEN /\ ret' = Returned(EmptyDataFrame)
            /\ fetch' = [fetch EXCEPT !.pc = "done"]
       ELSE /\ ret' = ret
            /\ fetch' = [fetch EXCEPT !.pc = "submit", !.rest = header_ids,
                                       !.total = Len(header_ids)]
  /\ UNCHANGED <<inputs, args, viewer>>

SubmitAll ==
  /\ fetch.pc = "submit"
  /\ LET size  == Len(fetch.rest)
         chunk == fetch.rest
         ids   == {chunk[i] : i \in 1..size}
     IN  fetch' = [fetch EXCEPT !.pc = "wait",
                                !.pending = ids,
                                !.running = ids,
                                !.started = [h \in 0..MaxHeaders |->
                                               IF h \in ids THEN @[h] + 1 ELSE @[h]],
                                !.rest = <<>>]
  /\ UNCHANGED <<inputs, args, call, ret, viewer>>

\* lines 168-170 and chunked (lines 29-31): the next chunk_size ids are
\* submitted to a new pool of chunk_size workers, which starts their fetches
SubmitChunk ==
  /\ fetch.pc = "submit"
  /\ LET size  == IF Len(fetch.rest) < args.chunk_size THEN Len(fetch.rest)
                  ELSE args.chunk_size
         chunk == SubSeq(fetch.rest, 1, size)
         ids   == {chunk[i] : i \in 1..size}
     IN  fetch' = [fetch EXCEPT !.pc = "wait",
                                !.pending = ids,
                                !.running = ids,
                                !.started = [h \in 0..MaxHeaders |->
                                               IF h \in ids THEN @[h] + 1 ELSE @[h]],
                                !.rest = SubSeq(fetch.rest, size + 1, Len(fetch.rest))]
  /\ UNCHANGED <<inputs, args, call, ret, viewer>>

\* lines 145-154 in a worker thread: safe_fetch of member hid returns (the
\* request answers, fails or times out after 10 s, line 115)
FetchReturns(hid) ==
  /\ fetch.pc = "wait"
  /\ hid \in fetch.running
  /\ fetch' = [fetch EXCEPT !.running = @ \ {hid}]
  /\ UNCHANGED <<inputs, args, call, ret, viewer>>

FutureCompletesUncounted(hid) ==
  /\ fetch.pc = "wait"
  /\ hid \in fetch.pending \ fetch.running
  /\ LET ts   == safe_fetch(hid, args.outcomes[hid])
         left == fetch.pending \ {hid}
     IN  fetch' = [fetch EXCEPT
           !.all_flows = IF ts.index # <<>> THEN Append(@, ts) ELSE @,
           !.pending = left,
           !.pc = IF left # {} THEN "wait"
                  ELSE IF fetch.rest # <<>> THEN "submit" ELSE "concat"]
  /\ UNCHANGED <<inputs, args, call, ret, viewer>>

\* lines 171-178: as_completed hands over the future of member hid, whose
\* fetch has returned
FutureCompletes(hid) ==
  /\ fetch.pc = "wait"
  /\ hid \in fetch.pending \ fetch.running
  /\ LET ts   == safe_fetch(hid, args.outcomes[hid])
         left == fetch.pending \ {hid}
     IN  fetch' = [fetch EXCEPT
           !.all_flows = IF ts.index # <<>> THEN Append(@, ts) ELSE @,
           !.completed = @ + 1,
           !.pending = left,
           !.pc = IF left # {} THEN "wait"
                  ELSE IF fetch.rest # <<>> THEN "submit" ELSE "concat"]
  /\ UNCHANGED <<inputs, args, call, ret, viewer>>

\* lines 180-194
ConcatMembers ==
  /\ fetch.pc = "concat"
  /\ ret' = MergeResult(fetch.all_flows)
  /\ fetch' = [fetch EXCEPT !.pc = "done"]
  /\ UNCHANGED <<inputs, args, call, viewer>>

NextMerge ==
  \/ FetchBegin
  \/ SubmitChunk
  \/ \E hid \in 1..MaxHeaders : FetchReturns(hid)
  \/ \E hid \in 1..MaxHeaders : FutureCompletes(hid)
  \/ ConcatMembers

SpecMerge == InitMerge /\ [][NextMerge]_vars

\* The main thread and the worker threads keep being scheduled, and every
\* request returns or times out.
SpecMergeFair == SpecMerge /\ WF_vars(NextMerge)

(***************************************************************************)
(* Vocabulary of the claims about the merge.                               *)
(***************************************************************************)
Fetched == fetch.pc = "done"

MemberIds == {args.headers[i] : i \in 1..Len(args.headers)} \ {0}

GaveSeries(h) == args.outcomes[h].kind = "series"

\* The samples of member h that the table shows: its set cells, in row order.
ShownSamples(df, h) ==
  LET shown == SelectSeq([i \in 1..Len(df.index) |-> i],
                 LAMBDA i : ~IsNaN(df.rows[i][MemberName(h)]))
  IN  [j \in 1..Len(shown) |-> <<df.index[shown[j]], df.rows[shown[j]][MemberName(h)]>>]

GivenSamples(h) ==
  LET m == fetch_single_hefs_member(h, args.outcomes[h])
  IN  [j \in 1..Len(m.index) |-> <<m.index[j], m.values[j]>>]

\* C17: a member whose fetch failed or gave an empty series has no column
\* in the table fetch_hefs_timeseries returns; the table is the empty one
\* only when every member failed or was empty; every member that gave a
\* non-empty series (whatever its timestamps) has its column in the table.
C17_FailureIsolated ==
  Fetched
     => /\ ret.raised = ""
        /\ \A h \in MemberIds : ~GaveSeries(h) => ~HasColumn(ret.value, MemberName(h))
        /\ ret.value = EmptyDataFrame => \A h \in MemberIds : ~GaveSeries(h)
        /\ \A h \in MemberIds : GaveSeries(h) => HasColumn(ret.value, MemberName(h))

\* C18: the row index of the returned table is the union of the timestamps
\* of all members that gave a series; a cell (t, m) holds m's value at t
\* when m has a sample at t and is null otherwise.
C18_OuterJoin ==
  Fetched
     => /\ {ret.value.index[i] : i \in 1..Len(ret.value.index)}
             = UNION {{args.outcomes[h].index[j] : j \in 1..Len(args.outcomes[h].index)} :
                        h \in {g \in MemberIds : GaveSeries(g)}}
        /\ \A h \in MemberIds :
             GaveSeries(h) => /\ HasColumn(ret.value, MemberName(h))
                              /\ ShownSamples(ret.value, h) = GivenSamples(h)

\* C19: for fixed headers and fixed member outcomes the returned table is
\* the same under every completion order: it is the table that results when
\* the members arrive in header order.
C19_ArrivalOrderIndependent ==
  Fetched
     => LET ids      == HeaderIds(args.headers)
            arrivals == [k \in 1..Len(ids) |-> safe_fetch(ids[k], args.outcomes[ids[k]])]
        IN  ret = MergeResult(SelectSeq(arrivals, LAMBDA ts : ts.index # <<>>))

\* The chunk (0, 1, ...) in which chunked puts header id h.
ChunkOf(h) ==
  LET ids == HeaderIds(args.headers)
      pos == CHOOSE k \in 1..Len(ids) : ids[k] = h
  IN  (pos - 1) \div args.chunk_size

\* C24: at no time are more than chunk_size member fetches in flight, and
\* whenever a fetch has been started every fetch of an earlier chunk has
\* been started and has returned.
C24_BoundedConcurrency ==
  /\ Cardinality(fetch.running) <= args.chunk_size
  /\ \A h, g \in MemberIds :
       (fetch.started[h] > 0 /\ ChunkOf(g) < ChunkOf(h))
          => fetch.started[g] > 0 /\ g \notin fetch.running

\* A full chunk in flight while a later chunk waits.
C24_Witness ==
  /\ Cardinality(fetch.running) = args.chunk_size
  /\ fetch.rest # <<>>

\* C30: fetch_hefs_timeseries terminates; when it has, every header with an
\* id was fetched exactly once and no header without an id was fetched; the
\* counter completed never exceeds the number of header ids, grows only by
\* one and only when a future is taken, and equals the number of header ids
\* once the loop over the chunks is left.
C30_FetchCompletes ==
  /\ <>(fetch.pc = "done")
  /\ [](fetch.pc = "done"
          => /\ \A h \in MemberIds : fetch.started[h] = 1
             /\ \A h \in (0..MaxHeaders) \ MemberIds : fetch.started[h] = 0)
  /\ [](fetch.completed <= Len(HeaderIds(args.headers)))
  /\ [](fetch.pc \in {"concat", "done"}
          => fetch.completed = Len(HeaderIds(args.headers)))
  /\ [][fetch'.completed # fetch.completed
          => /\ fetch'.completed = fetch.completed + 1
             /\ \E hid \in fetch.pending : fetch'.pending = fetch.pending \ {hid}]_vars

\* Three members, fetched in two chunks after a header without an id was
\* skipped, all counted.
C30_Witness ==
  /\ fetch.pc = "done"
  /\ args.headers = <<0, 1, 2, 3>>
  /\ args.chunk_size = 2
  /\ fetch.completed = 3

(***************************************************************************)
(* SpecRisk: the risk table of hydro_viewer.py (lines 590-600).  The       *)
(* viewer cuts the ensemble's span into two windows and calls              *)
(* compute_exceedance_probabilities once for each.  Tables: one or two     *)
(* members over some of the hours 0, 66, 72, 78; a member is at flow 100   *)
(* except for at most one hour at which it is at 300.                      *)
(***************************************************************************)
ThreeDays == 72

RiskHours == <<0, 66, 72, 78>>

\* The non-empty increasing selections of RiskHours.
RiskIndexes ==
  {SelectSeq(RiskHours, LAMBDA t : t \in S) : S \in (SUBSET {0, 66, 72, 78}) \ {{}}}

\* A member is at 300 at hour peak and at 100 otherwise; -1 is no peak.
RiskMember(index, peak) ==
  [i \in 1..Len(index) |-> IF index[i] = peak THEN Rat(300) ELSE Rat(100)]

RiskTableOf(index, peaks) ==
  [columns |-> [k \in 1..Len(peaks) |-> MemberName(k)],
   index   |-> index,
   rows    |-> [i \in 1..Len(index) |->
                  [c \in {MemberName(k) : k \in 1..Len(peaks)} |->
                     LET k == CHOOSE k \in 1..Len(peaks) : MemberName(k) = c
                     IN  RiskMember(index, peaks[k])[i]]]]

RiskTables ==
  {RiskTableOf(index, peaks) :
     index \in RiskIndexes,
     peaks \in UNION {[1..m -> {-1, 0, 66, 72, 78}] : m \in 1..2}}

InitRisk ==
  /\ rating = ExampleCurve
  /\ series = EmptySeries
  /\ raw_data = NoData
  /\ column_map = <<>>
  /\ ensemble_df \in RiskTables
  /\ args = <<>>
  /\ call = "none"
  /\ ret = NoRet
  /\ session_state = <<>>
  /\ api_cache = <<>>
  /\ provider = <<>>
  /\ used = <<>>
  /\ fetch = NoFetch

\* lines 590-600: the two windows and the two calls
ComputeRiskWindows ==
  /\ call = "none"
  /\ ~IsEmpty(ensemble_df)
  /\ \E flood_lines \in FloodLineSets :
       LET forecast_start == ensemble_df.index[1]
           period1_end    == forecast_start + ThreeDays
           period2_start  == period1_end
           period2_end    == ensemble_df.index[Len(ensemble_df.index)]
       IN  /\ args' = [flood_lines |-> flood_lines,
                       forecast_start |-> forecast_start, period1_end |-> period1_end,
                       period2_start |-> period2_start, period2_end |-> period2_end]
           /\ \E prob_period1 \in compute_exceedance_probabilities(
                    ensemble_df, rating, flood_lines, forecast_start, period1_end),
                 prob_period2 \in compute_exceedance_probabilities(
                    ensemble_df, rating, flood_lines, period2_start, period2_end) :
                ret' = Returned([prob_period1 |-> prob_period1.value,
                                 prob_period2 |-> prob_period2.value])
  /\ call' = "risk_table"
  /\ UNCHANGED <<inputs, fetch, viewer>>

NextRisk == ComputeRiskWindows

SpecRisk == InitRisk /\ [][NextRisk]_vars

\* The timestamps of the rows a window evaluates.
RowsIn(period_start, period_end) ==
  LET subset == SliceRows(ensemble_df, period_start, period_end)
  IN  {subset.index[i] : i \in 1..Len(subset.index)}

\* C25: the viewer's two windows are adjacent and no ensemble row is
\* evaluated in both.
C25_WindowsDisjoint ==
  call = "risk_table"
     => /\ args.period2_start = args.period1_end
        /\ RowsIn(args.forecast_start, args.period1_end)
             \cap RowsIn(args.period2_start, args.period2_end) = {}

(***************************************************************************)
(* SpecLoad: logic.py, load_data.  The four getters are called for the     *)
(* gauge (after their caches are cleared when bypass is set) and the       *)
(* rating payload is turned into the rating table.  A rating payload is    *)
(* [kind, has_data, data]: kind "dict" for a mapping (has_data tells       *)
(* whether it has the key "data"), "list" and "none" for a payload that is *)
(* no mapping.  A record may lack a field, so the cells of the table built *)
(* here are rationals and a missing cell is NaN.                           *)
(***************************************************************************)
RatingRecords ==
  [stage : {Rat(2), Rat(4)}, flow : {Rat(100), Rat(200)}]
    \cup [stage : {Rat(2)}] \cup [flow : {Rat(100)}]

RecordLists == UNION {[1..n -> RatingRecords] : n \in 0..MaxRecords}

RatingPayloads ==
  {[kind |-> "dict", has_data |-> TRUE, data |-> d] : d \in RecordLists}
    \cup {[kind |-> "dict", has_data |-> FALSE, data |-> <<>>],
          [kind |-> "none", has_data |-> FALSE, data |-> <<>>],
          [kind |-> "list", has_data |-> FALSE, data |-> <<>>]}

\* pd.DataFrame(records): one column per field that occurs in some record
ColumnsOf(records) == UNION {DOMAIN records[i] : i \in 1..Len(records)}

RatingFrame(records) ==
  [i \in 1..Len(records) |->
     [k \in ColumnsOf(records) |->
        IF k \in DOMAIN records[i] THEN records[i][k] ELSE NaN]]

load_data_unchecked(nws_id, bypass, ratings) ==
  LET records == IF ratings.kind = "dict" /\ ratings.has_data THEN ratings.data ELSE <<>>
  IN  [nws_id    |-> nws_id,
       rating_df |-> [hasCols |-> ColumnsOf(records) # {}, rows |-> RatingFrame(records)]]

\* lines 249-265; of the returned tuple the model keeps the gauge and the
\* rating table
load_data(nws_id, bypass, ratings) ==
  LET records == IF ratings.kind = "dict" /\ ratings.has_data THEN ratings.data ELSE <<>>
      \* lines 255-259
      columns == ColumnsOf(records)
  IN  [nws_id    |-> nws_id,
       rating_df |-> IF ~({"stage", "flow"} \subseteq columns) THEN NoCurve
                     ELSE [hasCols |-> TRUE, rows |-> RatingFrame(records)]]

InitLoad ==
  /\ rating = NoCurve
  /\ series = EmptySeries
  /\ raw_data \in RatingPayloads
  /\ column_map = <<>>
  /\ ensemble_df = EmptyDataFrame
  /\ args = <<>>
  /\ call = "none"
  /\ ret = NoRet
  /\ session_state = <<>>
  /\ api_cache \in [filled : BOOLEAN]
  /\ provider = <<>>
  /\ used = <<>>
  /\ fetch = NoFetch

\* lines 243-247 clear the getters' caches when bypass is set; the getters
\* then fill them again
CallLoadData ==
  /\ call = "none"
  /\ \E nws_id \in Gauges, bypass \in BOOLEAN :
       /\ args' = [nws_id |-> nws_id, bypass |-> bypass]
       /\ ret' = Returned(load_data(nws_id, bypass, raw_data))
  /\ api_cache' = [filled |-> TRUE]
  /\ call' = "load_data"
  /\ UNCHANGED <<rating, series, raw_data, column_map, ensemble_df,
                 session_state, provider, used, fetch>>

NextLoad == CallLoadData

SpecLoad == InitLoad /\ [][NextLoad]_vars

\* The records of a rating payload, none when it is no mapping with data.
PayloadRecords(ratings) ==
  IF ratings.kind = "dict" /\ ratings.has_data THEN ratings.data ELSE <<>>

\* C23: load_data returns the empty rating curve when the rating payload is
\* no mapping, has no data records, or has the stage field or the flow
\* field in none of its records; otherwise the curve holds the payload's
\* records, one row each in the payload's order, a field a record lacks
\* being null.
C23_RatingCurveValidated ==
  call = "load_data"
     => LET records == PayloadRecords(raw_data)
            invalid ==
              \/ raw_data.kind # "dict"
              \/ records = <<>>
              \/ \A i \in 1..Len(records) : "stage" \notin DOMAIN records[i]
              \/ \A i \in 1..Len(records) : "flow" \notin DOMAIN records[i]
            curve == ret.value.rating_df
        IN  /\ ret.raised = ""
            /\ invalid => curve = NoCurve
            /\ ~invalid
                 => /\ curve.hasCols
                    /\ Len(curve.rows) = Len(records)
                    /\ \A i \in 1..Len(records) : \A k \in {"stage", "flow"} :
                         curve.rows[i][k]
                           = IF k \in DOMAIN records[i] THEN records[i][k] ELSE NaN

\* A payload of two full records gives a curve of two rows; the checked
\* payloads also hold records without the flow field.
C23_Witness ==
  /\ call = "load_data"
  /\ raw_data.kind = "dict"
  /\ Len(raw_data.data) = 2
  /\ \A i \in 1..2 : DOMAIN raw_data.data[i] = {"stage", "flow"}
  /\ Len(ret.value.rating_df.rows) = 2

====
